---- MODULE Spec2Model ----
(***************************************************************************)
(* Model of src/mistral_pdf_ocr.py: MistralOCR.process_document, its       *)
(* helpers, MistralOCR.process_directory and the part of main() that       *)
(* routes a result to a file or to the console.                            *)
(*                                                                         *)
(* Strings are sequences of one-character strings, so that str.replace,    *)
(* str.join and str.split are computed character by character.  A dict is  *)
(* a TLA+ function whose DOMAIN is its key set; the image dict, whose      *)
(* iteration order matters, is a sequence of <<key, value>> pairs.         *)
(*                                                                         *)
(* The Mistral client is the environment: upload, get_signed_url,          *)
(* ocr.process and files.delete each either return or raise.  The          *)
(* reportlab rendering inside _generate_text_pdf either returns or raises  *)
(* (Paragraph parses its text as markup and rejects malformed markup).     *)
(* Local file writes with open() are taken to succeed.                     *)
(***************************************************************************)
EXTENDS Integers, Sequences, FiniteSets, TLC

\* ---------------------------------------------------------------- bounds
MaxPages == 2      \* pages in one OCR response
MaxFiles == 2      \* entries in the directory listing

\* ------------------------------------------------------- string helpers
NL == "\n"
SEP == <<NL, NL>>                       \* the separator "\n\n"

RECURSIVE join(_, _)
\* sep.join(parts)
join(sep, parts) ==
    IF parts = <<>> THEN <<>>
    ELSE IF Len(parts) = 1 THEN parts[1]
    ELSE parts[1] \o sep \o join(sep, Tail(parts))

RECURSIVE replace_first(_, _, _)
\* s.replace(old, new, 1): only the first occurrence
replace_first(s, old, new) ==
    IF Len(s) < Len(old) THEN s
    ELSE IF SubSeq(s, 1, Len(old)) = old
         THEN new \o SubSeq(s, Len(old) + 1, Len(s))
         ELSE <<Head(s)>> \o replace_first(Tail(s), old, new)

RECURSIVE replace(_, _, _)
\* s.replace(old, new): leftmost non-overlapping occurrences, old non-empty
replace(s, old, new) ==
    IF Len(s) < Len(old) THEN s
    ELSE IF SubSeq(s, 1, Len(old)) = old
         THEN new \o replace(SubSeq(s, Len(old) + 1, Len(s)), old, new)
         ELSE <<Head(s)>> \o replace(Tail(s), old, new)

RECURSIVE split(_, _)
\* s.split(sep): sep non-empty; always at least one piece
split(s, sep) ==
    LET hits == {k \in 1..(Len(s) - Len(sep) + 1) :
                     SubSeq(s, k, k + Len(sep) - 1) = sep}
    IN IF hits = {} THEN <<s>>
       ELSE LET k == CHOOSE h \in hits : \A g \in hits : h <= g
            IN <<SubSeq(s, 1, k - 1)>>
               \o split(SubSeq(s, k + Len(sep), Len(s)), sep)

\* s.strip() is non-empty
strip_nonempty(s) == \E k \in 1..Len(s) : s[k] \notin {" ", NL}

\* the placeholder f"![{img_name}]({img_name})" and its replacement
placeholder(img_name) ==
    <<"!", "[">> \o img_name \o <<"]", "(">> \o img_name \o <<")">>
inlined(img_name, base64_str) ==
    <<"!", "[">> \o img_name \o <<"]", "(">> \o base64_str \o <<")">>

\* ---------------------------------------------------------- dict helpers
\* d[k] = v on an insertion-ordered dict kept as a sequence of pairs
dict_set(d, k, v) ==
    IF \E j \in 1..Len(d) : d[j][1] = k
    THEN [j \in 1..Len(d) |-> IF d[j][1] = k THEN <<k, v>> ELSE d[j]]
    ELSE Append(d, <<k, v>>)

\* -------------------------------------------------------- JSON encoding
\* JSON text is modelled by its syntax tree: an object is the sequence of
\* its members <<name, value>> in the order written, an array a sequence.
\* OCRResponse.json() writes every field the response object carries.
json_image(img) ==
    << <<"id", img.id>>, <<"image_base64", img.image_base64>> >>

json_page(page) ==
    << <<"index", page.index>>,
       <<"markdown", page.markdown>>,
       <<"images", [j \in 1..Len(page.images) |-> json_image(page.images[j])]>> >>
    \o (IF "text" \in DOMAIN page THEN << <<"text", page.text>> >> ELSE <<>>)

json_response(r) ==
    << <<"pages", [j \in 1..Len(r.pages) |-> json_page(r.pages[j])]>>,
       <<"model", r.model>> >>

\* json.loads on an object: a dict with one key per member name, the last
\* member of a name giving its value
member(obj, name) ==
    obj[CHOOSE j \in 1..Len(obj) :
            /\ obj[j][1] = name
            /\ \A g \in (j + 1)..Len(obj) : obj[g][1] # name][2]
names(obj) == {obj[j][1] : j \in 1..Len(obj)}

loads_image(obj) == [k \in names(obj) |-> member(obj, k)]

loads_page(obj) ==
    [k \in names(obj) |->
        IF k = "images"
        THEN [j \in 1..Len(member(obj, k)) |-> loads_image(member(obj, k)[j])]
        ELSE member(obj, k)]

loads_response(obj) ==
    [k \in names(obj) |->
        IF k = "pages"
        THEN [j \in 1..Len(member(obj, k)) |-> loads_page(member(obj, k)[j])]
        ELSE member(obj, k)]

\* ------------------------------------------------------------- inputs
Formats == {"json", "markdown", "text"}        \* argparse choices, line 509
Supported == {".pdf", ".png", ".jpg", ".jpeg"} \* lines 190 and 451
DEFAULT_MODEL == "mistral-ocr-latest"

\* Path(name).suffix.lower() on the suffixes the inputs use
lower(ext) == IF ext = ".PNG" THEN ".png" ELSE ext

\* image ids and inline image data as the service produces them: an id is
\* a file-like name, the data a base64 data URI; neither contains the
\* characters of the placeholder syntax
id_x == <<"x">>
id_y == <<"y">>
data_D == <<"D">>
data_E == <<"E">>

Image(id, b64) == [id |-> id, image_base64 |-> b64]

ImageLists ==
    { <<>>,
      <<Image(id_x, data_D)>>,
      <<Image(id_x, data_E), Image(id_y, data_D)>> }

Markdowns ==
    { <<"s", "e", "e", " ">> \o placeholder(id_x) \o <<" ", "h", "e", "r", "e">>,
      placeholder(id_x) \o placeholder(id_y) \o <<NL, NL>> \o placeholder(id_x),
      <<"!", "[", "x", "]", "(", "y", ")", NL, "x">> }

Texts == { <<>>, <<"A">>, <<"B", NL, NL, "C">> }

\* page bodies: the response of the text profile varies the text field
\* (present or absent), the one of the markdown profile the markdown and
\* the image list
TextPages ==
    {[markdown |-> <<"m">>, images |-> <<>>, text |-> t] : t \in Texts}
    \cup {[markdown |-> <<"m">>, images |-> <<>>]}

MdPages == {[markdown |-> m, images |-> il] : m \in Markdowns, il \in ImageLists}

\* an OCRResponse whose pages are the given bodies, indexed in order
Response(bodies) ==
    [pages |-> [j \in 1..Len(bodies) |-> [index |-> j - 1] @@ bodies[j]],
     model |-> DEFAULT_MODEL]

ResponsesOver(Pages) ==
    {Response(b) : b \in UNION {[1..k -> Pages] : k \in 0..MaxPages}}

TextResponses == ResponsesOver(TextPages)
MdResponses == ResponsesOver(MdPages)

\* the two documents a batch run tells apart
FlowResponses ==
    { Response(<< [markdown |-> placeholder(id_x), images |-> <<Image(id_x, data_D)>>,
                   text |-> <<"A">>] >>),
      Response(<< [markdown |-> placeholder(id_x), images |-> <<>>],
                  [markdown |-> <<"t">>, images |-> <<Image(id_x, data_E)>>,
                   text |-> <<>>] >>) }

NoResponse == Response(<<>>)

\* a document on disk (or a path naming none): what OCR recognises in it is
\* part of the document
Doc(stem, ext, exists, ocr) ==
    [stem |-> stem, ext |-> ext, exists |-> exists, ocr |-> ocr]

FileArgs(R) ==
    {Doc("a", ".pdf", TRUE, r) : r \in R}
    \cup {Doc("b", ".txt", TRUE, NoResponse), Doc("a", ".pdf", FALSE, NoResponse)}

DirDocs(R) ==
    {Doc(nm[1], nm[2], TRUE, r) : nm \in {<<"a", ".pdf">>, <<"a", ".PNG">>, <<"b", ".pdf">>},
                                  r \in R}
    \cup {Doc("b", ".txt", TRUE, NoResponse)}

\* os.listdir: distinct names, any order
Listings(R) ==
    {l \in UNION {[1..k -> DirDocs(R)] : k \in 0..MaxFiles} :
        \A i, j \in 1..Len(l) :
            (l[i].stem = l[j].stem /\ l[i].ext = l[j].ext) => i = j}

\* -------------------------------------------------------------- state
VARIABLES
    mode,          \* "file": args.file given; "directory": args.directory
    fmt,           \* args.format
    pdf,           \* args.pdf
    output,        \* TRUE iff args.output names a directory
    listing,       \* file mode: <<the file argument>>; else os.listdir
    pc,            \* control position
    raised,        \* exception that left process_document, or "none"
    pdf_files,     \* process_directory: the supported files
    n,             \* process_directory: position in pdf_files
    results,       \* process_directory: results
    file_path,     \* process_document: file_path
    generate_pdf,  \* process_document: generate_pdf
    calls,         \* process_document: client calls made, with outcome
    response,      \* process_document: response
    response_dict, \* process_document: response_dict
    result,        \* process_document: result; then the caller's result
    markdowns,     \* _get_combined_markdown: markdowns
    image_data,    \* _get_combined_markdown: image_data
    page_no,       \* _get_combined_markdown: position in ocr_response.pages
    fs,            \* files written: path -> data
    stdout         \* results printed by main

vars == <<mode, fmt, pdf, output, listing, pc, raised, pdf_files, n, results,
          file_path, generate_pdf, calls, response, response_dict, result,
          markdowns, image_data, page_no, fs, stdout>>

args == <<mode, fmt, pdf, output, listing>>
dir_locals == <<pdf_files, n, results>>
md_locals == <<markdowns, image_data, page_no>>

None == <<>>       \* an unset local; also the empty dict

InitArgs(R, modes) ==
    /\ mode \in modes
    /\ fmt \in Formats
    /\ pdf \in BOOLEAN
    /\ output \in BOOLEAN
    /\ listing \in IF mode = "file" THEN {<<f>> : f \in FileArgs(R)}
                   ELSE Listings(R)

InitRest ==
    /\ pc = "main"
    /\ raised = "none"
    /\ pdf_files = <<>>
    /\ n = 0
    /\ results = <<>>
    /\ file_path = None
    /\ generate_pdf = FALSE
    /\ calls = <<>>
    /\ response = None
    /\ response_dict = None
    /\ result = None
    /\ markdowns = <<>>
    /\ image_data = <<>>
    /\ page_no = 0
    /\ fs = <<>>
    /\ stdout = <<>>

Init == InitArgs(FlowResponses, {"file", "directory"}) /\ InitRest
InitText == InitArgs(TextResponses, {"file"}) /\ InitRest
InitMd == InitArgs(MdResponses, {"file"}) /\ InitRest

\* ------------------------------------------------------ pure helpers
\* _replace_images_in_markdown: one str.replace per item of the dict, in
\* the dict's order
RECURSIVE replace_images_in_markdown(_, _)
replace_images_in_markdown(markdown_str, images_dict) ==
    IF images_dict = <<>> THEN markdown_str
    ELSE replace_images_in_markdown(
             replace(markdown_str,
                     placeholder(Head(images_dict)[1]),
                     inlined(Head(images_dict)[1], Head(images_dict)[2])),
             Tail(images_dict))

\* for img in page.images: image_data[img.id] = img.image_base64
RECURSIVE fill_image_data(_, _)
fill_image_data(d, images) ==
    IF images = <<>> THEN d
    ELSE fill_image_data(dict_set(d, Head(images).id, Head(images).image_base64),
                         Tail(images))

\* the list comprehension with a filter that drops empty texts
text_contents_skip_empty(rd) ==
    LET pages == IF "pages" \in DOMAIN rd THEN rd.pages ELSE <<>>
    IN SelectSeq([j \in 1..Len(pages) |->
                     IF "text" \in DOMAIN pages[j] THEN pages[j].text ELSE <<>>],
                 LAMBDA t : t # <<>>)

\* [page.get("text", "") for page in response_dict.get("pages", [])]
text_contents(rd) ==
    LET pages == IF "pages" \in DOMAIN rd THEN rd.pages ELSE <<>>
    IN [j \in 1..Len(pages) |->
           IF "text" \in DOMAIN pages[j] THEN pages[j].text ELSE <<>>]

\* output paths; the directory of the source is "src", args.output is "out";
\* "_OCRtext.pdf" stands for the non-ASCII suffix of line 349
md_path(f) == <<"src", f.stem, "_OCR.md">>
pdf_path(f) == <<"src", f.stem, "_OCRtext.pdf">>
out_path(f, format) ==
    <<"out", f.stem, CASE format = "markdown" -> ".md"
                       [] format = "text" -> ".txt"
                       [] OTHER -> ".json">>

\* open(path, "w") ... write(data)
write(files, path, data) ==
    [q \in (DOMAIN files) \cup {path} |-> IF q = path THEN data ELSE files[q]]

BR == "<br/>"
\* the story _generate_text_pdf builds: the title, then one Paragraph per
\* piece of content.split('\n\n') that is not blank
pdf_story(f, content) ==
    LET pieces == SelectSeq(split(content, SEP), strip_nonempty)
    IN [title |-> <<f.stem, f.ext>>,
        body |-> [j \in 1..Len(pieces) |-> replace(pieces[j], <<NL>>, <<BR>>)]]

\* the two handlers at the end of process_document
\* the message is the handler's prefix followed by str(e)
error_result(exc, detail) ==
    [error |-> <<IF exc = "SDKError" THEN "Mistral API error"
                 ELSE "document processing error", detail>>]

set_key(d, k, v) == (k :> v) @@ d

\* ---------------------------------------------------- process_document
pd_locals == <<file_path, generate_pdf, calls, response, response_dict>>

\* lines 184-196: the two checks made before the try block, then the read
pd_validate ==
    /\ pc = "pd_entry"
    /\ IF ~file_path.exists
       THEN raised' = "FileNotFoundError" /\ pc' = "main_except"
       ELSE IF lower(file_path.ext) \notin Supported
       THEN raised' = "ValueError" /\ pc' = "main_except"
       ELSE raised' = raised /\ pc' = "pd_upload"
    /\ UNCHANGED <<args, dir_locals, pd_locals, result, md_locals, fs, stdout>>

\* a client call that raised: the inner handler re-raises (235-237), one of
\* the outer handlers turns it into the result (272-279)
service_step(step, next_pc) ==
    \E outcome \in {"ok", "SDKError", "Exception"} :
        /\ calls' = Append(calls, <<step, outcome>>)
        /\ IF outcome = "ok"
           THEN pc' = next_pc /\ result' = result
           ELSE pc' = "pd_return" /\ result' = error_result(outcome, step)

\* lines 207-213
pd_upload ==
    /\ pc = "pd_upload"
    /\ service_step("upload", "pd_sign")
    /\ UNCHANGED <<args, raised, dir_locals, file_path, generate_pdf, response,
                   response_dict, md_locals, fs, stdout>>

\* line 217
pd_sign ==
    /\ pc = "pd_sign"
    /\ service_step("get_signed_url", "pd_ocr")
    /\ UNCHANGED <<args, raised, dir_locals, file_path, generate_pdf, response,
                   response_dict, md_locals, fs, stdout>>

\* lines 223-227
pd_ocr ==
    /\ pc = "pd_ocr"
    /\ service_step("ocr", "pd_delete")
    /\ response' = IF pc' = "pd_delete" THEN file_path.ocr ELSE response
    /\ UNCHANGED <<args, raised, dir_locals, file_path, generate_pdf,
                   response_dict, md_locals, fs, stdout>>

\* a delete whose failure is handled like that of the other client calls
pd_delete_fatal ==
    /\ pc = "pd_delete"
    /\ service_step("delete", "pd_assemble")
    /\ UNCHANGED <<args, raised, dir_locals, file_path, generate_pdf, response,
                   response_dict, md_locals, fs, stdout>>

\* lines 230-234: a failed delete is only reported
pd_delete ==
    /\ pc = "pd_delete"
    /\ \E outcome \in {"ok", "Exception"} :
           calls' = Append(calls, <<"delete", outcome>>)
    /\ pc' = "pd_assemble"
    /\ UNCHANGED <<args, raised, dir_locals, file_path, generate_pdf, response,
                   response_dict, result, md_locals, fs, stdout>>

\* line 243, then lines 246-247
pd_assemble_json ==
    /\ pc = "pd_assemble"
    /\ fmt = "json"
    /\ response_dict' = loads_response(json_response(response))
    /\ result' = response_dict'
    /\ pc' = "pd_pdf"
    /\ UNCHANGED <<args, raised, dir_locals, file_path, generate_pdf, calls,
                   response, md_locals, fs, stdout>>

\* line 243, then lines 251-256
pd_assemble_text ==
    /\ pc = "pd_assemble"
    /\ fmt \notin {"json", "markdown"}
    /\ response_dict' = loads_response(json_response(response))
    /\ result' = [content |-> join(SEP, text_contents(response_dict'))]
    /\ pc' = "pd_pdf"
    /\ UNCHANGED <<args, raised, dir_locals, file_path, generate_pdf, calls,
                   response, md_locals, fs, stdout>>

\* line 243, then line 250 enters _get_combined_markdown (line 306)
pd_assemble_markdown ==
    /\ pc = "pd_assemble"
    /\ fmt = "markdown"
    /\ response_dict' = loads_response(json_response(response))
    /\ markdowns' = <<>>
    /\ image_data' = <<>>
    /\ page_no' = 1
    /\ pc' = "md_loop"
    /\ UNCHANGED <<args, raised, dir_locals, file_path, generate_pdf, calls,
                   response, result, fs, stdout>>

\* the loop with image_data created once, before it
md_page_shared_images ==
    /\ pc = "md_loop"
    /\ page_no <= Len(response.pages)
    /\ LET page == response.pages[page_no]
       IN /\ image_data' = fill_image_data(image_data, page.images)
          /\ markdowns' = Append(markdowns,
                 replace_images_in_markdown(page.markdown, image_data'))
    /\ page_no' = page_no + 1
    /\ UNCHANGED <<args, pc, raised, dir_locals, pd_locals, result, fs, stdout>>

\* the loop skipping a page that has no image
md_page_skip_plain ==
    /\ pc = "md_loop"
    /\ page_no <= Len(response.pages)
    /\ LET page == response.pages[page_no]
       IN /\ image_data' = fill_image_data(<<>>, page.images)
          /\ markdowns' = IF page.images = <<>> THEN markdowns
                          ELSE Append(markdowns,
                                   replace_images_in_markdown(page.markdown, image_data'))
    /\ page_no' = page_no + 1
    /\ UNCHANGED <<args, pc, raised, dir_locals, pd_locals, result, fs, stdout>>

\* lines 307-311: one iteration of the loop over ocr_response.pages
md_page ==
    /\ pc = "md_loop"
    /\ page_no <= Len(response.pages)
    /\ LET page == response.pages[page_no]
       IN /\ image_data' = fill_image_data(<<>>, page.images)
          /\ markdowns' = Append(markdowns,
                 replace_images_in_markdown(page.markdown, image_data'))
    /\ page_no' = page_no + 1
    /\ UNCHANGED <<args, pc, raised, dir_locals, pd_locals, result, fs, stdout>>

\* line 313, and the assignment of line 250
md_join ==
    /\ pc = "md_loop"
    /\ page_no > Len(response.pages)
    /\ result' = [content |-> join(SEP, markdowns)]
    /\ pc' = "pd_save_md"
    /\ UNCHANGED <<args, raised, dir_locals, pd_locals, md_locals, fs, stdout>>

\* the save made only when no output directory was requested
pd_save_markdown_unless_output ==
    /\ pc = "pd_save_md"
    /\ fs' = IF output THEN fs ELSE write(fs, md_path(file_path), result["content"])
    /\ result' = set_key(result, "markdown_path", md_path(file_path))
    /\ pc' = "pd_pdf"
    /\ UNCHANGED <<args, raised, dir_locals, pd_locals, md_locals, stdout>>

\* lines 259-262 with _save_markdown_file (315-334)
pd_save_markdown ==
    /\ pc = "pd_save_md"
    /\ fs' = write(fs, md_path(file_path), result["content"])
    /\ result' = set_key(result, "markdown_path", md_path(file_path))
    /\ pc' = "pd_pdf"
    /\ UNCHANGED <<args, raised, dir_locals, pd_locals, md_locals, stdout>>

\* lines 265-268 with _generate_text_pdf (336-424); result["content"]
\* raises KeyError when the result has no such key, and building the
\* Paragraphs or the document may raise: both reach the handler of 276-279
pd_generate_pdf ==
    /\ pc = "pd_pdf"
    /\ IF ~generate_pdf
       THEN UNCHANGED <<result, fs>>
       ELSE IF "content" \notin DOMAIN result
       THEN result' = error_result("KeyError", "content") /\ fs' = fs
       ELSE \E rendered \in BOOLEAN :
                IF rendered
                THEN /\ fs' = write(fs, pdf_path(file_path),
                                    pdf_story(file_path, result["content"]))
                     /\ result' = set_key(result, "pdf_path", pdf_path(file_path))
                ELSE result' = error_result("Exception", "pdf") /\ fs' = fs
    /\ pc' = "pd_return"
    /\ UNCHANGED <<args, raised, dir_locals, pd_locals, md_locals, stdout>>

\* lines 270, 275, 279: the result goes to the caller
pd_return ==
    /\ pc = "pd_return"
    /\ pc' = IF mode = "file" THEN "main_out" ELSE "dir_append"
    /\ UNCHANGED <<args, raised, dir_locals, pd_locals, result, md_locals, fs,
                   stdout>>

\* ------------------------------------------------------------- main
\* the bindings of a fresh process_document call
call(f, gen) ==
    /\ file_path' = f
    /\ generate_pdf' = gen
    /\ calls' = <<>>
    /\ response' = None
    /\ response_dict' = None
    /\ result' = None
    /\ markdowns' = <<>>
    /\ image_data' = <<>>
    /\ page_no' = 0
    /\ pc' = "pd_entry"

\* line 577: process_document(args.file, args.format, generate_pdf=args.pdf)
main_file ==
    /\ pc = "main"
    /\ mode = "file"
    /\ call(listing[1], pdf)
    /\ UNCHANGED <<args, raised, dir_locals, fs, stdout>>

\* json.dump(result, f) / json.dumps(result) on the result of json mode
dumps(res) == json_response(res)

\* what lines 585-596 and 469-478 write for a result
out_data(format, res) ==
    IF format = "json" THEN dumps(res)
    ELSE IF "content" \in DOMAIN res THEN res["content"] ELSE <<>>

\* lines 579-606
main_output ==
    /\ pc = "main_out"
    /\ IF "error" \notin DOMAIN result
       THEN IF output
            THEN /\ fs' = write(fs, out_path(file_path, fmt), out_data(fmt, result))
                 /\ stdout' = stdout
            ELSE /\ stdout' = Append(stdout, out_data(fmt, result))
                 /\ fs' = fs
       ELSE /\ stdout' = Append(stdout, result)
            /\ fs' = fs
    /\ pc' = "done"
    /\ UNCHANGED <<args, raised, dir_locals, pd_locals, result, md_locals>>

\* lines 619-624: an exception that left process_document or
\* process_directory is printed by main
main_except ==
    /\ pc = "main_except"
    /\ stdout' = Append(stdout, [error |-> raised])
    /\ pc' = "done"
    /\ UNCHANGED <<args, raised, dir_locals, pd_locals, result, md_locals, fs>>

\* ---------------------------------------------------- process_directory
\* lines 449-451
supported_files(l) ==
    SelectSeq(l, LAMBDA f : f.exists /\ lower(f.ext) \in Supported)

\* line 610, then lines 440-455
dir_entry ==
    /\ pc = "main"
    /\ mode = "directory"
    /\ pdf_files' = supported_files(listing)
    /\ results' = <<>>
    /\ n' = 1
    /\ pc' = IF pdf_files' = <<>> THEN "done" ELSE "dir_call"
    /\ UNCHANGED <<args, raised, pd_locals, result, md_locals, fs, stdout>>

\* lines 458-460: process_document(file_path, output_format); generate_pdf
\* takes its default
dir_call ==
    /\ pc = "dir_call"
    /\ call(pdf_files[n], FALSE)
    /\ UNCHANGED <<args, raised, dir_locals, fs, stdout>>

\* the loop leaving at the first file whose result carries an error
dir_append_stop_on_error ==
    /\ pc = "dir_append"
    /\ results' = Append(results, [file |-> <<file_path.stem, file_path.ext>>,
                                   result |-> result])
    /\ fs' = IF output /\ "error" \notin DOMAIN result
             THEN write(fs, out_path(file_path, fmt), out_data(fmt, result))
             ELSE fs
    /\ n' = n + 1
    /\ pc' = IF n < Len(pdf_files) /\ "error" \notin DOMAIN result
             THEN "dir_call" ELSE "done"
    /\ UNCHANGED <<args, raised, pdf_files, pd_locals, result, md_locals, stdout>>

\* lines 461-480, and line 482 after the last file
dir_append ==
    /\ pc = "dir_append"
    /\ results' = Append(results, [file |-> <<file_path.stem, file_path.ext>>,
                                   result |-> result])
    /\ fs' = IF output /\ "error" \notin DOMAIN result
             THEN write(fs, out_path(file_path, fmt), out_data(fmt, result))
             ELSE fs
    /\ n' = n + 1
    /\ pc' = IF n < Len(pdf_files) THEN "dir_call" ELSE "done"
    /\ UNCHANGED <<args, raised, pdf_files, pd_locals, result, md_locals, stdout>>

\* ------------------------------------------------------ specifications
ProcessDocument ==
    \/ pd_validate
    \/ pd_upload
    \/ pd_sign
    \/ pd_ocr
    \/ pd_delete
    \/ pd_assemble_json
    \/ pd_assemble_text
    \/ pd_assemble_markdown
    \/ md_page
    \/ md_join
    \/ pd_save_markdown
    \/ pd_generate_pdf
    \/ pd_return

NextFile ==
    \/ main_file
    \/ ProcessDocument
    \/ main_output
    \/ main_except

Next ==
    \/ NextFile
    \/ dir_entry
    \/ dir_call
    \/ dir_append

Spec == Init /\ [][Next]_vars
SpecText == InitText /\ [][NextFile]_vars
SpecMd == InitMd /\ [][NextFile]_vars

\* ------------------------------------------------- vocabulary of claims
\* the OCR call of the current process_document call returned
OcrOk == \E k \in 1..Len(calls) : calls[k] = <<"ocr", "ok">>

\* process_document is handing its result to the caller
Returning == pc = "pd_return"

\* the result says that building the PDF raised inside the rendering library
RenderFailed == result = error_result("Exception", "pdf")

\* the OCR call has succeeded and the result, which is being returned, is
\* not the report of a failed rendering
ReturningContent == Returning /\ OcrOk /\ ~RenderFailed

\* positions at which pat occurs in s
occurrences(s, pat) ==
    {k \in 1..(Len(s) - Len(pat) + 1) : SubSeq(s, k, k + Len(pat) - 1) = pat}

\* content is the parts in order with exactly one SEP between neighbours:
\* part j sits right after the j-1 parts and j-1 separators before it
Laid(content, parts) ==
    LET N == Len(parts)
        End[j \in 0..N] == IF j = 0 THEN 0
                           ELSE End[j - 1] + Len(parts[j]) + Len(SEP)
    IN /\ Len(content) = IF N = 0 THEN 0 ELSE End[N] - Len(SEP)
       /\ \A j \in 1..N :
              SubSeq(content, End[j - 1] + 1, End[j - 1] + Len(parts[j])) = parts[j]
       /\ \A j \in 1..(N - 1) :
              SubSeq(content, End[j] - Len(SEP) + 1, End[j]) = SEP

RECURSIVE total_len(_)
total_len(parts) ==
    IF parts = <<>> THEN 0 ELSE Len(Head(parts)) + total_len(Tail(parts))

\* the plain-text fields of the pages the service returned, "" where absent
page_texts(r) ==
    [j \in 1..Len(r.pages) |->
        IF "text" \in DOMAIN r.pages[j] THEN r.pages[j].text ELSE <<>>]

\* C1: in text mode the content process_document returns for a successful
\* OCR call is the pages' text fields in response order, one "\n\n" between
\* consecutive pages and nowhere else added: N pages give N-1 separators
\* (none for N = 0), and a page with empty or absent text contributes an
\* empty segment.
C1_TextJoined ==
    (ReturningContent /\ fmt = "text") =>
        LET texts == page_texts(file_path.ocr)
            N == Len(texts)
        IN /\ "content" \in DOMAIN result
           /\ Laid(result["content"], texts)
           /\ Len(result["content"]) =
                  total_len(texts) + Len(SEP) * (IF N = 0 THEN 0 ELSE N - 1)

\* page texts ["A", ""] (the second absent or empty) have given "A\n\n"
C1_Witness ==
    /\ ReturningContent /\ fmt = "text"
    /\ page_texts(file_path.ocr) = <<<<"A">>, <<>>>>
    /\ result["content"] = <<"A", NL, NL>>

AllIds == {id_x, id_y}
AllData == {data_D, data_E}

RECURSIVE concat(_)
concat(pieces) == IF pieces = <<>> THEN <<>> ELSE Head(pieces) \o concat(Tail(pieces))

page_ids(page) == {page.images[j].id : j \in 1..Len(page.images)}
page_data(page, id) ==
    page.images[CHOOSE j \in 1..Len(page.images) :
                    /\ page.images[j].id = id
                    /\ \A g \in (j + 1)..Len(page.images) : page.images[g].id # id
               ].image_base64

\* the page's markdown with, at once, every placeholder of an id of the
\* page's image map exchanged for its inlined form and every other
\* character kept
substituted(page) ==
    LET md == page.markdown
        at(k) == {id \in page_ids(page) : k \in occurrences(md, placeholder(id))}
        inside(k) == \E id \in page_ids(page) :
                        \E q \in occurrences(md, placeholder(id)) :
                            q < k /\ k < q + Len(placeholder(id))
        piece(k) == IF at(k) # {}
                    THEN LET id == CHOOSE i \in at(k) : TRUE
                         IN inlined(id, page_data(page, id))
                    ELSE IF inside(k) THEN <<>> ELSE <<md[k]>>
    IN concat([k \in 1..Len(md) |-> piece(k)])

\* the pages whose markdown _get_combined_markdown has transformed so far
Transformed == 1..Len(markdowns)

\* C2: in markdown mode every occurrence of ![id](id) in a page's markdown
\* is replaced by ![id](<inline data of id>) for every id of the page's
\* image map, and an occurrence of ![id](id) for an id absent from that
\* map is left as it is; nothing else of the markdown changes.
C2_PlaceholdersReplaced ==
    \A k \in Transformed :
        LET page == response.pages[k]
        IN /\ markdowns[k] = substituted(page)
           /\ \A id \in AllIds :
                  IF id \in page_ids(page)
                  THEN /\ occurrences(markdowns[k], placeholder(id)) = {}
                       /\ Cardinality(occurrences(markdowns[k],
                                          inlined(id, page_data(page, id))))
                            = Cardinality(occurrences(page.markdown, placeholder(id)))
                  ELSE Cardinality(occurrences(markdowns[k], placeholder(id)))
                         = Cardinality(occurrences(page.markdown, placeholder(id)))

\* "see ![x](x) here" with image map {x: D} has become "see ![x](D) here"
C2_Witness ==
    \E k \in Transformed :
        /\ response.pages[k].markdown =
               <<"s", "e", "e", " ", "!", "[", "x", "]", "(", "x", ")",
                 " ", "h", "e", "r", "e">>
        /\ response.pages[k].images = <<Image(id_x, data_D)>>
        /\ markdowns[k] =
               <<"s", "e", "e", " ", "!", "[", "x", "]", "(", "D", ")",
                 " ", "h", "e", "r", "e">>

\* C3: replacement is scoped per page: a page's transformed markdown is
\* determined by its own markdown and image list; an id that only other
\* pages map leaves the page's ![id](id) untouched, and where several pages
\* map the same id to different data a page shows only its own data.
C3_ScopedPerPage ==
    \A k \in Transformed :
        LET page == response.pages[k]
        IN /\ \A id \in AllIds \ page_ids(page) :
                  /\ occurrences(markdowns[k], placeholder(id))
                         = occurrences(page.markdown, placeholder(id))
                  /\ \A d \in AllData :
                         occurrences(markdowns[k], inlined(id, d)) = {}
           /\ \A id \in page_ids(page) :
                  \A d \in AllData \ {page_data(page, id)} :
                      occurrences(markdowns[k], inlined(id, d)) = {}
           /\ \A j \in Transformed :
                  (/\ response.pages[j].markdown = page.markdown
                   /\ response.pages[j].images = page.images)
                      => markdowns[j] = markdowns[k]

\* an earlier page maps x, the later one does not and still shows ![x](x)
C3_Witness ==
    /\ Len(markdowns) = 2
    /\ id_x \in page_ids(response.pages[1])
    /\ id_x \notin page_ids(response.pages[2])
    /\ occurrences(response.pages[2].markdown, placeholder(id_x)) # {}
    /\ markdowns[2] = response.pages[2].markdown
    /\ markdowns[1] # response.pages[1].markdown

\* the transformed markdown of each page of the service's response
page_markdowns(r) ==
    [j \in 1..Len(r.pages) |-> substituted(r.pages[j])]

\* C4: in markdown mode the returned content is the pages' transformed
\* markdown in the page order of the response, one "\n\n" between
\* consecutive pages: no page dropped, duplicated or moved.
C4_MarkdownInPageOrder ==
    (ReturningContent /\ fmt = "markdown") =>
        /\ "content" \in DOMAIN result
        /\ Laid(result["content"], page_markdowns(file_path.ocr))

\* two pages with different transformed markdown have been returned
C4_Witness ==
    /\ ReturningContent /\ fmt = "markdown"
    /\ Len(file_path.ocr.pages) = 2
    /\ page_markdowns(file_path.ocr)[1] # page_markdowns(file_path.ocr)[2]
    /\ file_path.ocr.pages[1].images = <<>>
    /\ result["content"] = page_markdowns(file_path.ocr)[1] \o SEP
                               \o page_markdowns(file_path.ocr)[2]

\* C5: in json mode the result process_document returns, and the JSON main
\* then writes or prints from it, decodes to exactly the fields of the
\* response the service returned.
C5_JsonRoundTrip ==
    /\ (Returning /\ OcrOk /\ fmt = "json") => result = file_path.ocr
    /\ (pc = "done" /\ mode = "file" /\ OcrOk /\ fmt = "json") =>
           /\ "error" \notin DOMAIN result
           /\ IF output
              THEN /\ out_path(file_path, fmt) \in DOMAIN fs
                   /\ loads_response(fs[out_path(file_path, fmt)]) = file_path.ocr
              ELSE /\ stdout # <<>>
                   /\ loads_response(stdout[1]) = file_path.ocr

C7_FailuresReturned ==
    /\ raised = "none"
    /\ (Returning /\ ~OcrOk) =>
           "error" \in DOMAIN result /\ "content" \notin DOMAIN result

\* no other file of the batch shares the stem, hence the output names, of f
OwnNames(f) ==
    \A k \in 1..Len(pdf_files) :
        pdf_files[k].stem = f.stem => pdf_files[k].ext = f.ext

\* C8: when a single-file operation ends with a result carrying an error,
\* no output file exists for that input: no sibling <stem>_OCR.md, no
\* derived PDF, no file in the output directory.
C8_NoFileOnError ==
    /\ (Returning /\ "error" \in DOMAIN result /\ OwnNames(file_path)) =>
           \A q \in DOMAIN fs : q[2] # file_path.stem
    /\ (pc = "done" /\ mode = "file" /\ "error" \in DOMAIN result) =>
           DOMAIN fs = {}
    /\ (pc = "done" /\ mode = "directory") =>
           \A k \in 1..Len(results) :
               ("error" \in DOMAIN results[k].result /\ OwnNames(pdf_files[k]))
                   => \A q \in DOMAIN fs : q[2] # results[k].file[1]

\* the result of a successful call on f alone, generate_pdf left at False
Alone(res, f) ==
    CASE fmt = "json" -> res = f.ocr
      [] fmt = "text" ->
             /\ DOMAIN res = {"content"}
             /\ Laid(res["content"], page_texts(f.ocr))
      [] OTHER ->
             /\ DOMAIN res = {"content", "markdown_path"}
             /\ Laid(res["content"], page_markdowns(f.ocr))
             /\ res["markdown_path"] = md_path(f)

\* C9: process_directory over K supported files does not raise and returns
\* K entries, one per file in iteration order; the entry of a file that
\* failed carries an error and nothing else, every later file is still
\* processed, and the entry of a file that succeeded is what that file
\* gives when processed alone.
C9_BatchEntriesIndependent ==
    /\ mode = "directory" => raised = "none"
    /\ (mode = "directory" /\ pc \in {"dir_call", "pd_entry"}) =>
           Len(results) = n - 1
    /\ (pc = "done" /\ mode = "directory") =>
           LET files == supported_files(listing)
           IN /\ Len(results) = Len(files)
              /\ \A k \in 1..Len(files) :
                     /\ results[k].file = <<files[k].stem, files[k].ext>>
                     /\ IF "error" \in DOMAIN results[k].result
                        THEN DOMAIN results[k].result = {"error"}
                        ELSE Alone(results[k].result, files[k])

\* a batch of two: the first file failed, the second one carries content
C9_Witness ==
    /\ pc = "done" /\ mode = "directory"
    /\ Len(results) = 2
    /\ "error" \in DOMAIN results[1].result
    /\ "content" \in DOMAIN results[2].result

\* C10: with generate_pdf set and a successful OCR call, in each of the
\* three modes process_document writes the PDF of the assembled content
\* and returns a result without error that carries the PDF path (the
\* rendering library accepting the content).
C10_PdfInEveryMode ==
    (ReturningContent /\ generate_pdf) =>
        /\ "error" \notin DOMAIN result
        /\ "pdf_path" \in DOMAIN result
        /\ pdf_path(file_path) \in DOMAIN fs

\* C11: in a batch that main runs with --pdf, every file is processed with
\* generate_pdf true, as main processes a single file with --pdf: for a
\* file whose OCR succeeded in text or markdown mode the PDF of its content
\* is written and the entry's result carries the PDF path (the rendering
\* library accepting the content).
C11_BatchGeneratesPdf ==
    (mode = "directory" /\ pdf /\ Returning /\ OcrOk) =>
        /\ generate_pdf
        /\ (fmt # "json" /\ ~RenderFailed) =>
               /\ "pdf_path" \in DOMAIN result
               /\ pdf_path(file_path) \in DOMAIN fs

\* the client calls of one process_document call, in the order of the code
ServiceOrder == <<"upload", "get_signed_url", "ocr", "delete">>

\* the delete of the uploaded file was attempted and raised
DeleteFailed ==
    \E k \in 1..Len(calls) : calls[k] = <<"delete", "Exception">>

\* C12: the client calls of one process_document call are a prefix of
\* upload, get signed URL, OCR, delete, each made only after every earlier
\* one returned; the delete is attempted exactly once when the OCR call
\* returned and never otherwise; and a delete that raised leaves the outcome
\* as it is: the call returns the assembled result, an error only where the
\* PDF step that follows the assembly raised.
C12_ServiceStepsInOrder ==
    /\ Len(calls) <= Len(ServiceOrder)
    /\ \A j \in 1..Len(calls) :
           /\ calls[j][1] = ServiceOrder[j]
           /\ j < Len(calls) => calls[j][2] = "ok"
    /\ Returning =>
           Cardinality({k \in 1..Len(calls) : calls[k][1] = "delete"})
               = IF OcrOk THEN 1 ELSE 0
    /\ (Returning /\ DeleteFailed) =>
           IF generate_pdf
           THEN \/ RenderFailed
                \/ result = error_result("KeyError", "content")
                \/ /\ "error" \notin DOMAIN result
                   /\ Alone([k \in DOMAIN result \ {"pdf_path"} |-> result[k]],
                            file_path)
           ELSE Alone(result, file_path)

\* the four calls were made, the delete raised, and the result carries the
\* assembled content
C12_Witness ==
    /\ Returning
    /\ Len(calls) = 4
    /\ DeleteFailed
    /\ "content" \in DOMAIN result
    /\ "error" \notin DOMAIN result

====
